---- MODULE Spec2Model ----
(***************************************************************************)
(* Density resolution of hackathon_nft: get_osm_administrative_areas,      *)
(* get_population_and_area_wikidata, search_alternative_wikidata_ids,      *)
(* get_population_density and determine_rarity of src/app.py.  The first   *)
(* four are also in src/population_density.py with the same statements;    *)
(* there the messages go to print, not logging, and the text of the error  *)
(* for an invalid population differs (line 89); they are the pd_           *)
(* definitions.  signup, login and upload are the routes of src/app.py,    *)
(* pk_signup and pk_login those of src/appwsolanapubkey.py.  Line numbers  *)
(* are those of src/app.py where no file is named.                         *)
(*                                                                         *)
(* Python values are records [t, n, d, s]: t is the Python type, n/d the   *)
(* number (an int has d = 1; a float is the reduced fraction n/d, d > 0;   *)
(* d = 0 is nan (n = 0), inf (n = 1) or -inf (n = -1)), s the text of a    *)
(* str.  Text that the code parses (admin_level, population, area) is a    *)
(* sequence of one-character strings.                                      *)
(***************************************************************************)
EXTENDS Integers, Sequences, FiniteSets, TLC

VARIABLES pc, areas, area_i, alternatives, alt_i, result, calls,
          arg, ret, fpc, pd, helper,
          users, pk_users, users_json, reply, upc, form, procs

vars == <<pc, areas, area_i, alternatives, alt_i, result, calls, arg, ret, fpc,
          pd, helper, users, pk_users, users_json, reply, upc, form, procs>>

flowVars == <<pc, areas, area_i, alternatives, alt_i, result, calls>>

fnVars == <<arg, ret, fpc>>

pdVars == <<pd, helper>>

webVars == <<users, pk_users, users_json, reply, upc, form, procs>>

-----------------------------------------------------------------------------
(* Bounds *)

MaxElements == 3

MaxAreas == 2

MaxCandidates == 2

MaxDensity == 501

MaxUploads == 2

-----------------------------------------------------------------------------
(* Python values *)

PyInt(n) == [t |-> "int", n |-> n, d |-> 1, s |-> ""]

PyStr(s) == [t |-> "str", n |-> 0, d |-> 1, s |-> s]

PyNone == [t |-> "NoneType", n |-> 0, d |-> 1, s |-> ""]

Abs(x) == IF x < 0 THEN -x ELSE x

RECURSIVE Gcd(_, _)
Gcd(a, b) == IF b = 0 THEN a ELSE Gcd(b, a % b)

\* the float n/d, reduced, with a positive denominator (d # 0)
PyFloat(n, d) ==
    LET g == Gcd(Abs(n), Abs(d))
        sn == IF d < 0 THEN -n ELSE n
    IN  [t |-> "float", n |-> sn \div g, d |-> Abs(d) \div g, s |-> ""]

PyNan == [t |-> "float", n |-> 0, d |-> 0, s |-> ""]

PyInf(sign) == [t |-> "float", n |-> sign, d |-> 0, s |-> ""]

\* bool(x) of a float: only 0.0 is falsy; None is falsy
Truthy(x) ==
    CASE x.t = "NoneType" -> FALSE
      [] x.t = "float"    -> ~(x.n = 0 /\ x.d # 0)
      [] x.t = "int"      -> x.n # 0
      [] OTHER            -> x.s # ""

\* x < k for a number x and an int k; every comparison with nan is False
NumLt(x, k) ==
    IF x.d = 0 THEN x.n = -1 ELSE x.n < k * x.d

\* population / area, int by float, area # 0.0
TrueDiv(population, area) ==
    CASE area.d = 0 /\ area.n = 0 -> PyNan
      [] area.d = 0               -> PyFloat(0, 1)
      [] OTHER                    -> PyFloat(population * area.d, area.n)

-----------------------------------------------------------------------------
(* int(str) and float(str) on text given as a sequence of characters.      *)
(* The grammar covered: surrounding blanks, a sign, decimal digits, one    *)
(* decimal point, and the words nan / inf / infinity.                      *)

Digits == <<"0", "1", "2", "3", "4", "5", "6", "7", "8", "9">>

IsDigit(c) == \E k \in 1 .. Len(Digits) : Digits[k] = c

DigitVal(c) == (CHOOSE k \in 1 .. Len(Digits) : Digits[k] = c) - 1

AllDigits(cs) == \A k \in 1 .. Len(cs) : IsDigit(cs[k])

RECURSIVE DigitsValue(_)
DigitsValue(cs) ==
    IF cs = <<>> THEN 0
    ELSE DigitsValue(SubSeq(cs, 1, Len(cs) - 1)) * 10 + DigitVal(cs[Len(cs)])

RECURSIVE Pow10(_)
Pow10(k) == IF k = 0 THEN 1 ELSE 10 * Pow10(k - 1)

RECURSIVE Strip(_)
Strip(cs) ==
    IF cs = <<>> THEN cs
    ELSE IF cs[1] = " " THEN Strip(Tail(cs))
    ELSE IF cs[Len(cs)] = " " THEN Strip(SubSeq(cs, 1, Len(cs) - 1))
    ELSE cs

HasSign(cs) == cs # <<>> /\ cs[1] \in {"+", "-"}

SignOf(cs) == IF cs # <<>> /\ cs[1] = "-" THEN -1 ELSE 1

Unsigned(cs) == IF HasSign(cs) THEN Tail(cs) ELSE cs

LowerChar(c) ==
    CASE c = "N" -> "n" [] c = "A" -> "a" [] c = "I" -> "i" [] c = "F" -> "f"
      [] c = "T" -> "t" [] c = "Y" -> "y" [] OTHER -> c

Lower(cs) == [k \in 1 .. Len(cs) |-> LowerChar(cs[k])]

\* int(text): [ok |-> FALSE] is ValueError
int_of_str(cs) ==
    LET body == Unsigned(Strip(cs))
    IN  IF body # <<>> /\ AllDigits(body)
        THEN [ok |-> TRUE, v |-> SignOf(Strip(cs)) * DigitsValue(body)]
        ELSE [ok |-> FALSE, v |-> 0]

\* float(text): [ok |-> FALSE] is ValueError
float_of_str(cs) ==
    LET s    == Strip(cs)
        sg   == SignOf(s)
        body == Unsigned(s)
        dots == {k \in 1 .. Len(body) : body[k] = "."}
        dot  == IF dots = {} THEN Len(body) + 1 ELSE CHOOSE k \in dots : TRUE
        ip   == SubSeq(body, 1, dot - 1)
        fp   == SubSeq(body, dot + 1, Len(body))
    IN  IF Lower(body) = <<"n", "a", "n">> THEN [ok |-> TRUE, v |-> PyNan]
        ELSE IF Lower(body) \in {<<"i", "n", "f">>,
                                 <<"i", "n", "f", "i", "n", "i", "t", "y">>}
        THEN [ok |-> TRUE, v |-> PyInf(sg)]
        ELSE IF /\ Cardinality(dots) <= 1
                /\ AllDigits(ip) /\ AllDigits(fp)
                /\ Len(ip) + Len(fp) >= 1
        THEN [ok |-> TRUE,
              v |-> PyFloat(sg * (DigitsValue(ip) * Pow10(Len(fp)) + DigitsValue(fp)),
                            Pow10(Len(fp)))]
        ELSE [ok |-> FALSE, v |-> PyNan]

-----------------------------------------------------------------------------
(* get_osm_administrative_areas, src/app.py:64-99                          *)
(* An Overpass response: status "error" is any RequestException (no        *)
(* connection, HTTP error status, a body that is not JSON); an element is  *)
(* [has_tags, has_name, name, has_wikidata, wikidata, admin_level], where  *)
(* admin_level is [k, chars] with k "absent", "null" (JSON null) or "str". *)
(* A call ends [exc, val]: exc # "" is the exception that leaves it.       *)

AdminLevelDefault == 99

Return(v) == [exc |-> "", val |-> v]

Raise(e) == [exc |-> e, val |-> <<>>]

TagGet(has, text) == IF has THEN PyStr(text) ELSE PyNone

\* src/app.py:84-87
AdminLevelOf(tag) ==
    CASE tag.k = "absent" -> Return(AdminLevelDefault)
      [] tag.k = "null"   -> Raise("TypeError")
      [] OTHER            -> LET r == int_of_str(tag.chars)
                             IN  Return(IF r.ok THEN r.v ELSE AdminLevelDefault)

\* src/app.py:83
Retained(element) == element.has_tags /\ element.has_wikidata

\* src/app.py:88-92
AreaOf(element) ==
    [name        |-> TagGet(element.has_name, element.name),
     wikidata_id |-> TagGet(element.has_wikidata, element.wikidata),
     admin_level |-> AdminLevelOf(element.admin_level).val]

\* the loop of src/app.py:82-92, elements from the first on
RECURSIVE CollectAreas(_)
CollectAreas(elements) ==
    IF elements = <<>> THEN Return(<<>>)
    ELSE LET element == Head(elements)
             rest    == CollectAreas(Tail(elements))
         IN  IF ~Retained(element) THEN rest
             ELSE IF AdminLevelOf(element.admin_level).exc # ""
             THEN Raise(AdminLevelOf(element.admin_level).exc)
             ELSE IF rest.exc # "" THEN rest
             ELSE Return(<<AreaOf(element)>> \o rest.val)

Reverse(seq) == [k \in 1 .. Len(seq) |-> seq[Len(seq) + 1 - k]]

\* a after every element of the ascending list whose key is <= a's
RECURSIVE InsertByLevel(_, _)
InsertByLevel(sorted, a) ==
    IF sorted = <<>> THEN <<a>>
    ELSE IF a.admin_level < Head(sorted).admin_level THEN <<a>> \o sorted
    ELSE <<Head(sorted)>> \o InsertByLevel(Tail(sorted), a)

RECURSIVE StableSortByLevel(_)
StableSortByLevel(seq) ==
    IF seq = <<>> THEN <<>>
    ELSE InsertByLevel(StableSortByLevel(SubSeq(seq, 1, Len(seq) - 1)), seq[Len(seq)])

\* sorted without reverse=True
SortedReverse_ascending(seq) == StableSortByLevel(seq)

SortedReverse_unstable(seq) == Reverse(StableSortByLevel(seq))

\* sorted(areas, key=admin_level, reverse=True), src/app.py:94: the list is
\* reversed, sorted stably in ascending order, and reversed again
SortedReverse(seq) == Reverse(StableSortByLevel(Reverse(seq)))

get_osm_administrative_areas(response) ==
    IF response.status = "error" THEN Return(<<>>)
    ELSE IF response.has_elements /\ Len(response.elements) > 0
    THEN LET collected == CollectAreas(response.elements)
         IN  IF collected.exc # "" THEN collected
             ELSE Return(SortedReverse(collected.val))
    ELSE Return(<<>>)

-----------------------------------------------------------------------------
(* get_population_and_area_wikidata, src/app.py:101-153                    *)
(* A SPARQL response: status "error" is any RequestException; has_bindings *)
(* is '"results" in data and "bindings" in data["results"]'; a binding is  *)
(* [population, area], each a cell [k, chars] with k "absent" (no such     *)
(* key), "novalue" (an object without "value") or "value".                 *)
(* A dict is a record with the set of its keys in the field keys.          *)

UnknownArea == PyStr("Unknown")

NoDensity == PyStr("Cannot calculate (no area data)")

Unbound ==
    [keys |-> {}, error |-> "",
     population |-> PyNone, area_km2 |-> PyNone, population_density |-> PyNone]

PopulationError(message) ==
    [keys |-> {"error"}, error |-> message,
     population |-> PyNone, area_km2 |-> PyNone, population_density |-> PyNone]

PopulationData(population, area_km2, population_density) ==
    [keys |-> {"population", "area_km2", "population_density"}, error |-> "",
     population |-> population, area_km2 |-> area_km2,
     population_density |-> population_density]

\* a population that does not parse taken as 0
PopulationOf_lenient(cell) ==
    IF cell.k = "value"
    THEN [ok |-> TRUE, v |-> int_of_str(cell.chars).v]
    ELSE [ok |-> FALSE, v |-> 0]

\* src/app.py:128-131: [ok |-> FALSE] is the KeyError or ValueError caught there
PopulationOf(cell) ==
    IF cell.k = "value" THEN int_of_str(cell.chars) ELSE [ok |-> FALSE, v |-> 0]

\* src/app.py:132-137
AreaValueOf(cell) ==
    CASE cell.k = "absent"  -> Return(PyNone)
      [] cell.k = "novalue" -> Raise("KeyError")
      [] OTHER              -> LET r == float_of_str(cell.chars)
                               IN  Return(IF r.ok THEN r.v ELSE PyNone)

\* 'if area:', src/app.py:138
AreaUsable(area) == Truthy(area)

get_population_and_area_wikidata(response) ==
    IF response.status = "error" THEN Return(PopulationError("Request failed"))
    ELSE IF response.has_bindings /\ Len(response.bindings) > 0
    THEN LET binding    == response.bindings[1]
             population == PopulationOf(binding.population)
             area       == AreaValueOf(binding.area)
         IN  IF ~population.ok
             THEN Return(PopulationError("Population data is not valid."))
             ELSE IF area.exc # "" THEN Raise(area.exc)
             ELSE IF AreaUsable(area.val)
             THEN Return(PopulationData(PyInt(population.v), area.val,
                                        TrueDiv(population.v, area.val)))
             ELSE Return(PopulationData(PyInt(population.v), UnknownArea, NoDensity))
    ELSE Return(PopulationError("No population or area data found for this Wikidata ID."))

-----------------------------------------------------------------------------
(* search_alternative_wikidata_ids, src/app.py:155-174                     *)
(* A search response: [status, has_search, search], an entry [has_id, id]. *)

RECURSIVE EntryIds(_)
EntryIds(entries) ==
    IF entries = <<>> THEN Return(<<>>)
    ELSE LET rest == EntryIds(Tail(entries))
         IN  IF ~Head(entries).has_id THEN Raise("KeyError")
             ELSE IF rest.exc # "" THEN rest
             ELSE Return(<<PyStr(Head(entries).id)>> \o rest.val)

search_alternative_wikidata_ids(response) ==
    IF response.status = "error" THEN Return(<<>>)
    ELSE EntryIds(IF response.has_search THEN response.search ELSE <<>>)

-----------------------------------------------------------------------------
(* determine_rarity, src/app.py:215-233 *)

IsNumber(x) == x.t \in {"int", "float"}

determine_rarity_unguarded(population_density) ==
    IF NumLt(population_density, 25) THEN PyInt(1)
    ELSE IF NumLt(population_density, 100) THEN PyInt(2)
    ELSE IF NumLt(population_density, 500) THEN PyInt(3)
    ELSE PyInt(4)

determine_rarity(population_density) ==
    IF ~IsNumber(population_density) THEN PyNone
    ELSE IF NumLt(population_density, 25) THEN PyInt(1)
    ELSE IF NumLt(population_density, 100) THEN PyInt(2)
    ELSE IF NumLt(population_density, 500) THEN PyInt(3)
    ELSE PyInt(4)

-----------------------------------------------------------------------------
(* Initial values of the variables of an operation that is not running *)

NoResult ==
    [keys |-> {}, error |-> "", location |-> PyNone, admin_level |-> 0,
     population |-> PyNone, area_km2 |-> PyNone, population_density |-> PyNone,
     wikidata_id |-> PyNone]

FlowIdle ==
    /\ pc = "idle"
    /\ areas = <<>>
    /\ area_i = 0
    /\ alternatives = <<>>
    /\ alt_i = 0
    /\ result = NoResult
    /\ calls = <<>>

-----------------------------------------------------------------------------
(* The users of the two Flask programs, src/app.py and                     *)
(* src/appwsolanapubkey.py.  users and pk_users are the dict 'users' of    *)
(* each: a function from Usernames to the value under that key, PyNone for *)
(* a key that is absent; users_json is the file both write; reply is       *)
(* the response to the last request, with the request's fields.  upc, form *)
(* and procs belong to upload of src/app.py: where the handler is, the     *)
(* fields of its request and the subprocesses it has run.                  *)

Usernames == {"alice", "bob"}

Passwords == {"pw", "other"}

\* request.form.get(field): a str, or None for a field that is absent
FormValues(S) == {PyStr(x) : x \in S} \cup {PyNone}

NoUsers == [u \in Usernames |-> PyNone]

\* src/app.py:258-268
NewUser(password, public_key) ==
    [t |-> "dict", password |-> password, solana_public_key |-> public_key,
     has_lists |-> TRUE,
     nft_names |-> <<>>, descriptions |-> <<>>, image_paths |-> <<>>,
     latitude |-> <<>>, longitude |-> <<>>, rarity |-> <<>>]

\* src/appwsolanapubkey.py:71-75: no list of NFTs under the key
pk_NewUser(password, public_key) ==
    [t |-> "dict", password |-> password, solana_public_key |-> public_key,
     has_lists |-> FALSE,
     nft_names |-> <<>>, descriptions |-> <<>>, image_paths |-> <<>>,
     latitude |-> <<>>, longitude |-> <<>>, rarity |-> <<>>]

\* str(keypair.pubkey()) of a new wallet
PublicKeyOf(username) == PyStr("pubkey-" \o username.s)

\* 'key in d'
Has(d, key) == key.t = "str" /\ key.s \in DOMAIN d /\ d[key.s] # PyNone

\* d.get(key)
Get(d, key) == IF Has(d, key) THEN d[key.s] ELSE PyNone

\* x == y of two Python values: values of different types are not equal
PyEquals(x, y) == x.t = y.t /\ x = y

Reply(program, route, username, password, status, success, message) ==
    [program |-> program, route |-> route, username |-> username,
     password |-> password, status |-> status, success |-> success,
     message |-> message]

NoReply == Reply("", "", PyNone, PyNone, 0, FALSE, "")

NoForm ==
    [username |-> PyNone, name |-> PyNone, description |-> PyNone,
     latitude |-> PyNone, longitude |-> PyNone, image |-> "absent"]

WebIdle ==
    /\ users = NoUsers
    /\ pk_users = NoUsers
    /\ users_json = NoUsers
    /\ reply = NoReply
    /\ upc = "idle"
    /\ form = NoForm
    /\ procs = <<>>

\* signup of src/app.py:238-277
signup(username, password) ==
    /\ upc = "idle"
    /\ IF ~Truthy(username) \/ ~Truthy(password)
       THEN /\ reply' = Reply("app", "signup", username, password, 400, FALSE,
                              "Username and password are required.")
            /\ UNCHANGED <<users, users_json>>
       ELSE IF Has(users, username)
       THEN /\ reply' = Reply("app", "signup", username, password, 400, FALSE,
                              "Username already exists.")
            /\ UNCHANGED <<users, users_json>>
       ELSE /\ users' = [users EXCEPT
                           ![username.s] = NewUser(password, PublicKeyOf(username))]
            /\ users_json' = users'
            /\ reply' = Reply("app", "signup", username, password, 201, TRUE,
                              "Signup successful.")
    /\ UNCHANGED <<pk_users, upc, form, procs, flowVars, fnVars, pdVars>>

\* login of src/app.py:280-291; 'users.get(username) == password' at 286
login(username, password) ==
    /\ upc = "idle"
    /\ IF ~Truthy(username) \/ ~Truthy(password)
       THEN reply' = Reply("app", "login", username, password, 400, FALSE,
                           "Username and password are required.")
       ELSE IF PyEquals(Get(users, username), password)
       THEN reply' = Reply("app", "login", username, password, 200, TRUE,
                           "Login successful.")
       ELSE reply' = Reply("app", "login", username, password, 401, FALSE,
                           "Invalid username or password.")
    /\ UNCHANGED <<users, pk_users, users_json, upc, form, procs,
                   flowVars, fnVars, pdVars>>

\* signup of src/appwsolanapubkey.py:53-82
pk_signup(username, password) ==
    /\ IF ~Truthy(username) \/ ~Truthy(password)
       THEN /\ reply' = Reply("appwsolanapubkey", "signup", username, password,
                              400, FALSE, "Username and password are required.")
            /\ UNCHANGED <<pk_users, users_json>>
       ELSE IF Has(pk_users, username)
       THEN /\ reply' = Reply("appwsolanapubkey", "signup", username, password,
                              400, FALSE, "Username already exists.")
            /\ UNCHANGED <<pk_users, users_json>>
       ELSE /\ pk_users' = [pk_users EXCEPT
                              ![username.s] = pk_NewUser(password, PublicKeyOf(username))]
            /\ users_json' = pk_users'
            /\ reply' = Reply("appwsolanapubkey", "signup", username, password,
                              201, TRUE, "Signup successful.")
    /\ UNCHANGED <<users, upc, form, procs, flowVars, fnVars, pdVars>>

\* login of src/appwsolanapubkey.py:85-95
pk_login(username, password) ==
    /\ IF ~Truthy(username) \/ ~Truthy(password)
       THEN reply' = Reply("appwsolanapubkey", "login", username, password,
                           400, FALSE, "Username and password are required.")
       ELSE IF Has(pk_users, username)
               /\ PyEquals(pk_users[username.s].password, password)
       THEN reply' = Reply("appwsolanapubkey", "login", username, password,
                           200, TRUE, "Login successful.")
       ELSE reply' = Reply("appwsolanapubkey", "login", username, password,
                           401, FALSE, "Invalid username or password.")
    /\ UNCHANGED <<users, pk_users, users_json, upc, form, procs,
                   flowVars, fnVars, pdVars>>

-----------------------------------------------------------------------------
(* get_population_density, src/app.py:176-213                              *)
(* One action per request to a service, with the code that follows the     *)
(* response up to the next request or the return.  calls is the list of    *)
(* the requests made so far: [op, area, id, outcome, ids, data], where op  *)
(* is "osm", "fetch" (line 186), "search" or "fetch_alt" (line 202), area  *)
(* the index of the area being tried, id the identifier fetched or the     *)
(* name searched, ids the candidates a search returned and data the record *)
(* a valid fetch returned.  lat and lon only go into the text of the       *)
(* Overpass query.                                                         *)

NoAreasMessage == "No administrative areas found for this location."

NoDataMessage ==
    "Could not fetch population or area data from Wikidata for any administrative area."

ErrorResult(message) == [NoResult EXCEPT !.keys = {"error"}, !.error = message]

PrimaryResult_tagged(area, data) ==
    [keys |-> {"location", "admin_level", "population", "area_km2",
               "population_density", "wikidata_id"},
     error |-> "",
     location |-> area.name,
     admin_level |-> area.admin_level,
     population |-> data.population,
     area_km2 |-> data.area_km2,
     population_density |-> data.population_density,
     wikidata_id |-> area.wikidata_id]

\* src/app.py:188-194
PrimaryResult(area, data) ==
    [keys |-> {"location", "admin_level", "population", "area_km2",
               "population_density"},
     error |-> "",
     location |-> area.name,
     admin_level |-> area.admin_level,
     population |-> data.population,
     area_km2 |-> data.area_km2,
     population_density |-> data.population_density,
     wikidata_id |-> PyNone]

\* src/app.py:204-211
AlternativeResult(area, data, alt_id) ==
    [keys |-> {"location", "admin_level", "population", "area_km2",
               "population_density", "wikidata_id"},
     error |-> "",
     location |-> area.name,
     admin_level |-> area.admin_level,
     population |-> data.population,
     area_km2 |-> data.area_km2,
     population_density |-> data.population_density,
     wikidata_id |-> alt_id]

Call(op, area, id, outcome, ids, data) ==
    [op |-> op, area |-> area, id |-> id, outcome |-> outcome, ids |-> ids,
     data |-> data]

\* the record a fetch returned, kept when it is valid
FetchData(out) ==
    IF out.exc = "" /\ "error" \notin out.val.keys THEN out.val ELSE Unbound

FetchOutcome(out) ==
    IF out.exc # "" THEN "raised"
    ELSE IF "error" \in out.val.keys THEN "invalid" ELSE "valid"

NextAlternative_noskip(alts, k, wikidata_id) == k

\* the candidate just fetched taken again
NextAlternative_again(alts, k, wikidata_id) == IF k > 1 THEN k - 1 ELSE k

\* 'break' in the place of 'continue'
NextAlternative_break(alts, k, wikidata_id) ==
    IF k <= Len(alts) /\ alts[k] = wikidata_id THEN Len(alts) + 1 ELSE k

\* src/app.py:198-200: the first candidate from position k on that is not the
\* area's own identifier; Len(alts) + 1 when there is none
RECURSIVE NextAlternative(_, _, _)
NextAlternative(alts, k, wikidata_id) ==
    IF k > Len(alts) THEN Len(alts) + 1
    ELSE IF alts[k] = wikidata_id THEN NextAlternative(alts, k + 1, wikidata_id)
    ELSE k

NextArea_giveup ==
    /\ area_i' = area_i
    /\ pc' = "done"
    /\ result' = ErrorResult(NoDataMessage)

\* the end of the body of 'for area in areas', src/app.py:212-213
NextArea ==
    IF area_i < Len(areas)
    THEN /\ area_i' = area_i + 1
         /\ pc' = "primary"
         /\ result' = result
    ELSE /\ area_i' = area_i
         /\ pc' = "done"
         /\ result' = ErrorResult(NoDataMessage)

NoAreas_never(found) == FALSE

\* 'if not areas', src/app.py:181
NoAreas(found) == found = <<>>

\* src/app.py:180-182
LocateAreas(response) ==
    LET out == get_osm_administrative_areas(response)
    IN  /\ pc = "idle"
        /\ calls' = Append(calls, Call("osm", 0, PyNone,
                                       IF out.exc # "" THEN "raised" ELSE "returned",
                                       <<>>, Unbound))
        /\ IF out.exc # ""
           THEN /\ pc' = "raised"
                /\ UNCHANGED <<areas, area_i, result>>
           ELSE IF NoAreas(out.val)
           THEN /\ pc' = "done"
                /\ result' = ErrorResult(NoAreasMessage)
                /\ areas' = out.val
                /\ UNCHANGED area_i
           ELSE IF out.val = <<>>
           THEN \* 'for area in areas' over no area, then line 213
                /\ pc' = "done"
                /\ result' = ErrorResult(NoDataMessage)
                /\ areas' = out.val
                /\ UNCHANGED area_i
           ELSE /\ pc' = "primary"
                /\ areas' = out.val
                /\ area_i' = 1
                /\ UNCHANGED result
        /\ UNCHANGED <<alternatives, alt_i, fnVars>>

\* src/app.py:184-196
FetchPrimary(response) ==
    LET area == areas[area_i]
        out  == get_population_and_area_wikidata(response)
    IN  /\ pc = "primary"
        /\ calls' = Append(calls, Call("fetch", area_i, area.wikidata_id,
                                       FetchOutcome(out), <<>>, FetchData(out)))
        /\ IF out.exc # ""
           THEN pc' = "raised" /\ UNCHANGED result
           ELSE IF "error" \notin out.val.keys
           THEN pc' = "done" /\ result' = PrimaryResult(area, out.val)
           ELSE pc' = "search" /\ UNCHANGED result
        /\ UNCHANGED <<areas, area_i, alternatives, alt_i, fnVars>>

\* src/app.py:197-200, and 212-213 when no candidate is left to fetch
SearchAlternatives(response) ==
    LET area == areas[area_i]
        out  == search_alternative_wikidata_ids(response)
        k    == NextAlternative(out.val, 1, area.wikidata_id)
    IN  /\ pc = "search"
        /\ calls' = Append(calls, Call("search", area_i, area.name,
                                       IF out.exc # "" THEN "raised" ELSE "returned",
                                       out.val, Unbound))
        /\ IF out.exc # ""
           THEN pc' = "raised" /\ UNCHANGED <<alternatives, alt_i, area_i, result>>
           ELSE /\ alternatives' = out.val
                /\ alt_i' = k
                /\ IF k <= Len(out.val)
                   THEN pc' = "alternative" /\ UNCHANGED <<area_i, result>>
                   ELSE NextArea
        /\ UNCHANGED <<areas, fnVars>>

\* src/app.py:201-213
FetchAlternative(response) ==
    LET area   == areas[area_i]
        alt_id == alternatives[alt_i]
        out    == get_population_and_area_wikidata(response)
        k      == NextAlternative(alternatives, alt_i + 1, area.wikidata_id)
    IN  /\ pc = "alternative"
        /\ calls' = Append(calls, Call("fetch_alt", area_i, alt_id,
                                       FetchOutcome(out), <<>>, FetchData(out)))
        /\ IF out.exc # ""
           THEN pc' = "raised" /\ UNCHANGED <<alt_i, area_i, result>>
           ELSE IF "error" \notin out.val.keys
           THEN /\ pc' = "done"
                /\ result' = AlternativeResult(area, out.val, alt_id)
                /\ UNCHANGED <<alt_i, area_i>>
           ELSE /\ alt_i' = k
                /\ IF k <= Len(alternatives)
                   THEN pc' = "alternative" /\ UNCHANGED <<area_i, result>>
                   ELSE NextArea
        /\ UNCHANGED <<areas, alternatives, fnVars>>

-----------------------------------------------------------------------------
(* The same four functions of src/population_density.py, lines 3-197, run  *)
(* on the responses that the functions of src/app.py get.  pd is the state *)
(* of its get_population_density, a record with the fields of flowVars;    *)
(* helper is what the function called last returned in each of the two     *)
(* files.  Statements that are the same text in both files use the         *)
(* operators above.  pd.pc is "apart" once the response is to a request    *)
(* that population_density.py does not make at that point.                 *)

\* src/population_density.py:30-40
RECURSIVE pd_CollectAreas(_)
pd_CollectAreas(elements) ==
    IF elements = <<>> THEN Return(<<>>)
    ELSE LET element == Head(elements)
             level   == AdminLevelOf(element.admin_level)
             rest    == pd_CollectAreas(Tail(elements))
         IN  IF ~(element.has_tags /\ element.has_wikidata) THEN rest
             ELSE IF level.exc # "" THEN Raise(level.exc)
             ELSE IF rest.exc # "" THEN rest
             ELSE Return(<<[name        |-> TagGet(element.has_name, element.name),
                            wikidata_id |-> TagGet(element.has_wikidata,
                                                   element.wikidata),
                            admin_level |-> level.val]>> \o rest.val)

\* src/population_density.py:24-47
pd_get_osm_administrative_areas(response) ==
    IF response.status = "error" THEN Return(<<>>)
    ELSE IF response.has_elements /\ Len(response.elements) > 0
    THEN LET collected == pd_CollectAreas(response.elements)
         IN  IF collected.exc # "" THEN collected
             ELSE Return(SortedReverse(collected.val))
    ELSE Return(<<>>)

\* a record without area taken as a failure
pd_get_population_and_area_wikidata_strict(response) ==
    IF response.status = "error" THEN Return(PopulationError("Request failed"))
    ELSE IF response.has_bindings /\ Len(response.bindings) > 0
    THEN LET binding    == response.bindings[1]
             population == PopulationOf(binding.population)
             area       == AreaValueOf(binding.area)
         IN  IF ~population.ok
             THEN Return(PopulationError("Population data is not in a valid format."))
             ELSE IF area.exc # "" THEN Raise(area.exc)
             ELSE IF Truthy(area.val)
             THEN Return(PopulationData(PyInt(population.v), area.val,
                                        TrueDiv(population.v, area.val)))
             ELSE Return(PopulationError("No population or area data found for this Wikidata ID."))
    ELSE Return(PopulationError("No population or area data found for this Wikidata ID."))

\* src/population_density.py:79-113
pd_get_population_and_area_wikidata(response) ==
    IF response.status = "error" THEN Return(PopulationError("Request failed"))
    ELSE IF response.has_bindings /\ Len(response.bindings) > 0
    THEN LET binding    == response.bindings[1]
             population == PopulationOf(binding.population)
             area       == AreaValueOf(binding.area)
         IN  IF ~population.ok
             THEN Return(PopulationError("Population data is not in a valid format."))
             ELSE IF area.exc # "" THEN Raise(area.exc)
             ELSE IF Truthy(area.val)
             THEN Return(PopulationData(PyInt(population.v), area.val,
                                        TrueDiv(population.v, area.val)))
             ELSE Return(PopulationData(PyInt(population.v), PyStr("Unknown"),
                                        PyStr("Cannot calculate (no area data)")))
    ELSE Return(PopulationError("No population or area data found for this Wikidata ID."))

\* src/population_density.py:134-141
pd_search_alternative_wikidata_ids(response) ==
    IF response.status = "error" THEN Return(<<>>)
    ELSE EntryIds(IF response.has_search THEN response.search ELSE <<>>)

pd_Idle ==
    [pc |-> "idle", areas |-> <<>>, area_i |-> 0, alternatives |-> <<>>,
     alt_i |-> 0, result |-> NoResult, calls |-> <<>>]

NoHelper == [app |-> Return(<<>>), pd |-> Return(<<>>)]

PdIdle == pd = pd_Idle /\ helper = NoHelper

pd_Logged(s, op, id, outcome, ids, data) ==
    Append(s.calls, Call(op, IF op = "osm" THEN 0 ELSE s.area_i, id, outcome, ids, data))

\* src/population_density.py:182-183
RECURSIVE pd_NextAlternative(_, _, _)
pd_NextAlternative(alts, k, wikidata_id) ==
    IF k > Len(alts) THEN Len(alts) + 1
    ELSE IF alts[k] = wikidata_id THEN pd_NextAlternative(alts, k + 1, wikidata_id)
    ELSE k

\* src/population_density.py:195-197: on to the next area, or the last return
pd_NextArea(s) ==
    IF s.area_i < Len(s.areas)
    THEN [s EXCEPT !.area_i = s.area_i + 1, !.pc = "primary"]
    ELSE [s EXCEPT !.pc = "done",
                   !.result = ErrorResult("Could not fetch population or area data from Wikidata for any administrative area.")]

\* src/population_density.py:159-164
pd_LocateAreas(s, response) ==
    LET out    == pd_get_osm_administrative_areas(response)
        logged == pd_Logged(s, "osm", PyNone,
                            IF out.exc # "" THEN "raised" ELSE "returned",
                            <<>>, Unbound)
    IN  IF s.pc # "idle" THEN [s EXCEPT !.pc = "apart"]
        ELSE IF out.exc # "" THEN [s EXCEPT !.pc = "raised", !.calls = logged]
        ELSE IF out.val = <<>>
        THEN [s EXCEPT !.pc = "done", !.calls = logged, !.areas = out.val,
                       !.result = ErrorResult("No administrative areas found for this location.")]
        ELSE [s EXCEPT !.pc = "primary", !.calls = logged, !.areas = out.val,
                       !.area_i = 1]

\* src/population_density.py:165-179
pd_FetchPrimary(s, response) ==
    LET area   == s.areas[s.area_i]
        out    == pd_get_population_and_area_wikidata(response)
        logged == pd_Logged(s, "fetch", area.wikidata_id, FetchOutcome(out),
                            <<>>, FetchData(out))
    IN  IF s.pc # "primary" THEN [s EXCEPT !.pc = "apart"]
        ELSE IF out.exc # "" THEN [s EXCEPT !.pc = "raised", !.calls = logged]
        ELSE IF "error" \notin out.val.keys
        THEN [s EXCEPT !.pc = "done", !.calls = logged,
                       !.result = [keys |-> {"location", "admin_level", "population",
                                             "area_km2", "population_density"},
                                   error |-> "",
                                   location |-> area.name,
                                   admin_level |-> area.admin_level,
                                   population |-> out.val.population,
                                   area_km2 |-> out.val.area_km2,
                                   population_density |-> out.val.population_density,
                                   wikidata_id |-> PyNone]]
        ELSE [s EXCEPT !.pc = "search", !.calls = logged]

\* src/population_density.py:179-183, and 195-197 when no candidate is left
pd_SearchAlternatives(s, response) ==
    LET area   == s.areas[s.area_i]
        out    == pd_search_alternative_wikidata_ids(response)
        k      == pd_NextAlternative(out.val, 1, area.wikidata_id)
        logged == pd_Logged(s, "search", area.name,
                            IF out.exc # "" THEN "raised" ELSE "returned",
                            out.val, Unbound)
    IN  IF s.pc # "search" THEN [s EXCEPT !.pc = "apart"]
        ELSE IF out.exc # "" THEN [s EXCEPT !.pc = "raised", !.calls = logged]
        ELSE IF k <= Len(out.val)
        THEN [s EXCEPT !.pc = "alternative", !.calls = logged,
                       !.alternatives = out.val, !.alt_i = k]
        ELSE pd_NextArea([s EXCEPT !.calls = logged, !.alternatives = out.val,
                                   !.alt_i = k])

\* src/population_density.py:184-197
pd_FetchAlternative(s, response) ==
    LET area   == s.areas[s.area_i]
        alt_id == s.alternatives[s.alt_i]
        out    == pd_get_population_and_area_wikidata(response)
        k      == pd_NextAlternative(s.alternatives, s.alt_i + 1, area.wikidata_id)
        logged == pd_Logged(s, "fetch_alt", alt_id, FetchOutcome(out),
                            <<>>, FetchData(out))
    IN  IF s.pc # "alternative" THEN [s EXCEPT !.pc = "apart"]
        ELSE IF out.exc # "" THEN [s EXCEPT !.pc = "raised", !.calls = logged]
        ELSE IF "error" \notin out.val.keys
        THEN [s EXCEPT !.pc = "done", !.calls = logged,
                       !.result = [keys |-> {"location", "admin_level", "population",
                                             "area_km2", "population_density",
                                             "wikidata_id"},
                                   error |-> "",
                                   location |-> area.name,
                                   admin_level |-> area.admin_level,
                                   population |-> out.val.population,
                                   area_km2 |-> out.val.area_km2,
                                   population_density |-> out.val.population_density,
                                   wikidata_id |-> alt_id]]
        ELSE IF k <= Len(s.alternatives)
        THEN [s EXCEPT !.calls = logged, !.alt_i = k]
        ELSE pd_NextArea([s EXCEPT !.calls = logged, !.alt_i = k])

\* both files' functions on one response
BothLocate(response) ==
    /\ LocateAreas(response)
    /\ pd' = pd_LocateAreas(pd, response)
    /\ helper' = [app |-> get_osm_administrative_areas(response),
                  pd  |-> pd_get_osm_administrative_areas(response)]
    /\ UNCHANGED webVars

BothFetchPrimary(response) ==
    /\ FetchPrimary(response)
    /\ pd' = pd_FetchPrimary(pd, response)
    /\ helper' = [app |-> get_population_and_area_wikidata(response),
                  pd  |-> pd_get_population_and_area_wikidata(response)]
    /\ UNCHANGED webVars

BothSearch(response) ==
    /\ SearchAlternatives(response)
    /\ pd' = pd_SearchAlternatives(pd, response)
    /\ helper' = [app |-> search_alternative_wikidata_ids(response),
                  pd  |-> pd_search_alternative_wikidata_ids(response)]
    /\ UNCHANGED webVars

BothFetchAlternative(response) ==
    /\ FetchAlternative(response)
    /\ pd' = pd_FetchAlternative(pd, response)
    /\ helper' = [app |-> get_population_and_area_wikidata(response),
                  pd  |-> pd_get_population_and_area_wikidata(response)]
    /\ UNCHANGED webVars

-----------------------------------------------------------------------------
(* determine_rarity applied to one argument *)

DensityInputs ==
    {PyInt(n) : n \in -2 .. MaxDensity}
      \cup {PyFloat(n, 2) : n \in {-1, 1, 49, 51, 199, 201, 999, 1001}}
      \cup {PyNan, PyInf(1), PyInf(-1)}
      \cup {NoDensity, UnknownArea, PyNone, PyStr("30")}

InitRarity ==
    /\ FlowIdle
    /\ PdIdle
    /\ WebIdle
    /\ arg \in DensityInputs
    /\ ret = PyNone
    /\ fpc = "call"

DetermineRarity ==
    /\ fpc = "call"
    /\ ret' = determine_rarity(arg)
    /\ fpc' = "return"
    /\ UNCHANGED <<arg, flowVars>>

NextRarity == DetermineRarity /\ UNCHANGED <<pdVars, webVars>>

SpecRarity == InitRarity /\ [][NextRarity]_vars

-----------------------------------------------------------------------------
(* get_osm_administrative_areas applied to one Overpass response *)

SeqsUpTo(S, n) == UNION {[1 .. k -> S] : k \in 0 .. n}

Level(k, chars) == [k |-> k, chars |-> chars]

Element(has_tags, has_name, name, has_wikidata, wikidata, admin_level) ==
    [has_tags |-> has_tags, has_name |-> has_name, name |-> name,
     has_wikidata |-> has_wikidata, wikidata |-> wikidata,
     admin_level |-> admin_level]

OsmElements ==
    {Element(FALSE, FALSE, "", FALSE, "", Level("absent", <<>>)),
     Element(TRUE, TRUE, "A", FALSE, "", Level("str", <<"8">>)),
     Element(TRUE, TRUE, "A", TRUE, "Q1", Level("str", <<"8">>)),
     Element(TRUE, TRUE, "B", TRUE, "Q2", Level("str", <<"8">>)),
     Element(TRUE, TRUE, "C", TRUE, "Q3", Level("str", <<"4">>)),
     Element(TRUE, FALSE, "", TRUE, "Q4", Level("str", <<"6">>)),
     Element(TRUE, TRUE, "D", TRUE, "Q5", Level("absent", <<>>)),
     Element(TRUE, TRUE, "E", TRUE, "Q6", Level("str", <<"x">>)),
     Element(TRUE, TRUE, "F", TRUE, "Q7", Level("null", <<>>)),
     Element(TRUE, TRUE, "G", TRUE, "Q8", Level("str", <<" ", "1", "0">>))}

OsmResponse(status, has_elements, elements) ==
    [status |-> status, has_elements |-> has_elements, elements |-> elements]

OsmResponses ==
    {OsmResponse("error", FALSE, <<>>), OsmResponse("ok", FALSE, <<>>)}
      \cup {OsmResponse("ok", TRUE, es) : es \in SeqsUpTo(OsmElements, MaxElements)}

InitLocate ==
    /\ FlowIdle
    /\ PdIdle
    /\ WebIdle
    /\ arg \in OsmResponses
    /\ ret = Return(<<>>)
    /\ fpc = "call"

GetOsmAdministrativeAreas ==
    /\ fpc = "call"
    /\ ret' = get_osm_administrative_areas(arg)
    /\ fpc' = "return"
    /\ UNCHANGED <<arg, flowVars>>

NextLocate == GetOsmAdministrativeAreas /\ UNCHANGED <<pdVars, webVars>>

SpecLocate == InitLocate /\ [][NextLocate]_vars

-----------------------------------------------------------------------------
(* get_population_and_area_wikidata applied to one SPARQL response *)

Cell(k, chars) == [k |-> k, chars |-> chars]

Binding(population, area) == [population |-> population, area |-> area]

WikidataResponse(status, has_bindings, bindings) ==
    [status |-> status, has_bindings |-> has_bindings, bindings |-> bindings]

PopulationCells ==
    {Cell("absent", <<>>), Cell("novalue", <<>>),
     Cell("value", <<"a", "b", "c">>),
     Cell("value", <<"1", "2", ".", "5">>),
     Cell("value", <<"0">>),
     Cell("value", <<"-", "5">>),
     Cell("value", <<"1", "0", "0">>),
     Cell("value", <<"1", "0", "0", "0">>),
     Cell("value", <<"5", "0", "0", "0", "0", "0">>),
     Cell("value", <<"1", "0", "0", "0", "0", "0", "0">>)}

AreaCells ==
    {Cell("absent", <<>>), Cell("novalue", <<>>),
     Cell("value", <<"a", "b", "c">>),
     Cell("value", <<>>),
     Cell("value", <<"0">>),
     Cell("value", <<"0", ".", "0">>),
     Cell("value", <<"-", "4">>),
     Cell("value", <<"4">>),
     Cell("value", <<"2", ".", "5">>),
     Cell("value", <<"1", "0", "0", "0", ".", "0">>),
     Cell("value", <<"n", "a", "n">>),
     Cell("value", <<"i", "n", "f">>)}

WikidataResponses ==
    {WikidataResponse("error", FALSE, <<>>),
     WikidataResponse("ok", FALSE, <<>>),
     WikidataResponse("ok", TRUE, <<>>)}
      \cup {WikidataResponse("ok", TRUE, <<Binding(p, a)>>) :
              p \in PopulationCells, a \in AreaCells}

InitFetch ==
    /\ FlowIdle
    /\ PdIdle
    /\ WebIdle
    /\ arg \in WikidataResponses
    /\ ret = Return(PopulationError(""))
    /\ fpc = "call"

GetPopulationAndAreaWikidata ==
    /\ fpc = "call"
    /\ ret' = get_population_and_area_wikidata(arg)
    /\ fpc' = "return"
    /\ UNCHANGED <<arg, flowVars>>

NextFetch == GetPopulationAndAreaWikidata /\ UNCHANGED <<pdVars, webVars>>

SpecFetch == InitFetch /\ [][NextFetch]_vars

-----------------------------------------------------------------------------
(* get_population_density, one call *)

FlowElements ==
    {Element(TRUE, TRUE, "A", TRUE, "Q1", Level("str", <<"8">>)),
     Element(TRUE, TRUE, "B", TRUE, "Q2", Level("str", <<"4">>)),
     Element(TRUE, TRUE, "F", TRUE, "Q7", Level("null", <<>>))}

FlowOsmResponses ==
    {OsmResponse("error", FALSE, <<>>), OsmResponse("ok", FALSE, <<>>)}
      \cup {OsmResponse("ok", TRUE, es) : es \in SeqsUpTo(FlowElements, MaxAreas)}

FlowWikidataResponses ==
    {WikidataResponse("error", FALSE, <<>>),
     WikidataResponse("ok", TRUE, <<>>),
     WikidataResponse("ok", TRUE,
        <<Binding(Cell("value", <<"a", "b", "c">>), Cell("absent", <<>>))>>),
     WikidataResponse("ok", TRUE,
        <<Binding(Cell("value", <<"1", "0", "0", "0">>), Cell("absent", <<>>))>>),
     WikidataResponse("ok", TRUE,
        <<Binding(Cell("value", <<"1", "0", "0", "0">>), Cell("value", <<"4">>))>>),
     WikidataResponse("ok", TRUE,
        <<Binding(Cell("value", <<"1", "0", "0", "0">>), Cell("novalue", <<>>))>>)}

Entry(has_id, id) == [has_id |-> has_id, id |-> id]

SearchResponse(status, has_search, search) ==
    [status |-> status, has_search |-> has_search, search |-> search]

FlowEntries == {Entry(TRUE, "Q1"), Entry(TRUE, "Q9"), Entry(FALSE, "")}

FlowSearchResponses ==
    {SearchResponse("error", FALSE, <<>>), SearchResponse("ok", FALSE, <<>>)}
      \cup {SearchResponse("ok", TRUE, es) : es \in SeqsUpTo(FlowEntries, MaxCandidates)}

Init ==
    /\ FlowIdle
    /\ PdIdle
    /\ WebIdle
    /\ arg = PyNone
    /\ ret = PyNone
    /\ fpc = "none"

Next ==
    \/ \E response \in FlowOsmResponses : BothLocate(response)
    \/ \E response \in FlowWikidataResponses : BothFetchPrimary(response)
    \/ \E response \in FlowSearchResponses : BothSearch(response)
    \/ \E response \in FlowWikidataResponses : BothFetchAlternative(response)

Spec == Init /\ [][Next]_vars

-----------------------------------------------------------------------------
(* Properties of get_population_density, under Spec *)

ResultFields == {"location", "admin_level", "population", "area_km2", "population_density"}

\* the candidates of a returned search that differ from the area's own identifier
Others(ids, own) == SelectSeq(ids, LAMBDA c : c # own)

\* the fetches of alternatives of area a made after the search at position k
AlternativeFetches(k, a) ==
    {q \in k + 1 .. Len(calls) : calls[q].op = "fetch_alt" /\ calls[q].area = a}

CarriesRecord(data) ==
    /\ result.population = data.population
    /\ result.area_km2 = data.area_km2
    /\ result.population_density = data.population_density

\* C1: a valid fetch of an area's own identifier is the last request of the
\* resolution, which has returned the area's name and admin_level with the
\* record's population, area and density, and no wikidata_id key.
C1_PrimarySuccessReturnsAtOnce ==
    \A k \in 1 .. Len(calls) :
        (calls[k].op = "fetch" /\ calls[k].outcome = "valid") =>
            /\ k = Len(calls)
            /\ pc = "done"
            /\ calls[k].id = areas[calls[k].area].wikidata_id
            /\ result.keys = ResultFields
            /\ result.location = areas[calls[k].area].name
            /\ result.admin_level = areas[calls[k].area].admin_level
            /\ CarriesRecord(calls[k].data)

C1_Witness ==
    /\ pc = "done"
    /\ Len(areas) = 2
    /\ Len(calls) = 2
    /\ calls[2].op = "fetch" /\ calls[2].outcome = "valid" /\ calls[2].area = 1
    /\ result.population_density.t = "float"

\* C2: a search is made on the area's name right after its primary fetch
\* failed; the fetches that follow it are of the candidates other than the
\* area's own identifier, in search order, none left out; the first valid one
\* ends the resolution with that candidate as wikidata_id and the area's name
\* and admin_level.
C2_AlternativesInSearchOrder ==
    \A k \in 1 .. Len(calls) :
        (calls[k].op = "search" /\ calls[k].outcome = "returned") =>
            LET a     == calls[k].area
                cands == Others(calls[k].ids, areas[a].wikidata_id)
                m     == Cardinality(AlternativeFetches(k, a))
            IN  /\ k > 1
                /\ calls[k - 1].op = "fetch" /\ calls[k - 1].area = a
                /\ calls[k - 1].outcome = "invalid"
                /\ calls[k].id = areas[a].name
                /\ AlternativeFetches(k, a) = k + 1 .. k + m
                /\ m <= Len(cands)
                /\ \A t \in 1 .. m :
                      /\ calls[k + t].id = cands[t]
                      /\ t < m => calls[k + t].outcome = "invalid"
                      /\ calls[k + t].outcome = "valid" =>
                            /\ k + t = Len(calls)
                            /\ pc = "done"
                            /\ result.keys = ResultFields \cup {"wikidata_id"}
                            /\ result.wikidata_id = cands[t]
                            /\ result.location = areas[a].name
                            /\ result.admin_level = areas[a].admin_level
                            /\ CarriesRecord(calls[k + t].data)
                /\ k + m < Len(calls) => m = Len(cands)
                /\ (k + m = Len(calls) /\ pc = "alternative") =>
                      /\ m < Len(cands)
                      /\ area_i = a
                      /\ alternatives[alt_i] = cands[m + 1]

C2_Witness ==
    /\ pc = "done"
    /\ Len(areas) = 2
    /\ Len(calls) = 4
    /\ calls[3].op = "search"
    /\ calls[3].ids = <<PyStr("Q1"), PyStr("Q9")>>
    /\ areas[1].wikidata_id = PyStr("Q1")
    /\ calls[4].op = "fetch_alt" /\ calls[4].outcome = "valid"
    /\ result.wikidata_id = PyStr("Q9")
    /\ result.location = PyStr("A")

\* the requests for area a are over and none gave a valid record: the primary
\* fetch failed, the search returned, every other candidate was fetched and
\* failed; ends at position LastOf(k, a) for the search at position k
LastOf(k, a) == k + Len(Others(calls[k].ids, areas[a].wikidata_id))

ExhaustedAt(k, a) ==
    /\ calls[k].op = "search" /\ calls[k].outcome = "returned" /\ calls[k].area = a
    /\ calls[k - 1].op = "fetch" /\ calls[k - 1].outcome = "invalid"
    /\ calls[k - 1].id = areas[a].wikidata_id
    /\ LastOf(k, a) <= Len(calls)
    /\ \A q \in k + 1 .. LastOf(k, a) :
          /\ calls[q].op = "fetch_alt" /\ calls[q].area = a
          /\ calls[q].id = Others(calls[k].ids, areas[a].wikidata_id)[q - k]
          /\ calls[q].outcome = "invalid"

Exhausted(a) == \E k \in 2 .. Len(calls) : ExhaustedAt(k, a)

\* C3: once the requests for an area that is not the last have all failed, the
\* next request is the primary fetch of the next area; and when that next
\* area's primary fetch is valid the result has its name and admin_level.
C3_FallsBackToNextArea ==
    \A a \in 1 .. Len(areas) - 1 :
        \A k \in 2 .. Len(calls) :
            ExhaustedAt(k, a) =>
                IF LastOf(k, a) = Len(calls)
                THEN pc = "primary" /\ area_i = a + 1
                ELSE LET next == calls[LastOf(k, a) + 1]
                     IN  /\ next.op = "fetch"
                         /\ next.area = a + 1
                         /\ next.id = areas[a + 1].wikidata_id
                         /\ next.outcome = "valid" =>
                               /\ pc = "done"
                               /\ result.location = areas[a + 1].name
                               /\ result.admin_level = areas[a + 1].admin_level

C3_Witness ==
    /\ pc = "done"
    /\ Len(areas) = 2
    /\ areas[1].name = PyStr("A") /\ areas[1].admin_level = 8
    /\ Exhausted(1)
    /\ \E q \in 1 .. Len(calls) : calls[q].op = "fetch_alt"
    /\ calls[Len(calls)].op = "fetch" /\ calls[Len(calls)].outcome = "valid"
    /\ result.location = PyStr("B") /\ result.admin_level = 4

\* C4: exactly when the boundary locator returned no area, the resolution has
\* returned the "no administrative areas" failure, and then the Overpass
\* request is the only request made.
C4_EmptyBoundaryListFails ==
    /\ (calls # <<>> /\ calls[1].outcome = "returned" /\ areas = <<>>) =>
          /\ pc = "done"
          /\ result = ErrorResult(NoAreasMessage)
          /\ Len(calls) = 1
    /\ ("error" \in result.keys /\ result.error = NoAreasMessage) =>
          /\ areas = <<>>
          /\ \A k \in 1 .. Len(calls) : calls[k].op = "osm"

C4_Witness ==
    /\ pc = "done"
    /\ calls = <<Call("osm", 0, PyNone, "returned", <<>>, Unbound)>>
    /\ result = ErrorResult(NoAreasMessage)

\* C5: when the resolution of a non-empty area list has returned, the result
\* is the "could not fetch" failure if and only if, for every area, the primary
\* fetch failed and every candidate other than the area's own identifier was
\* fetched and failed; otherwise it is a populated result.
C5_NoValidDataIffAllFailed ==
    (pc = "done" /\ areas # <<>>) =>
        LET allFailed == \A a \in 1 .. Len(areas) : Exhausted(a)
        IN  /\ (result = ErrorResult(NoDataMessage)) <=> allFailed
            /\ ~allFailed =>
                  /\ "error" \notin result.keys
                  /\ ResultFields \subseteq result.keys
                  /\ result.population.t = "int"

C5_Witness ==
    /\ pc = "done"
    /\ Len(areas) = 2
    /\ result = ErrorResult(NoDataMessage)
    /\ \E q \in 1 .. Len(calls) :
          calls[q].op = "fetch_alt" /\ calls[q].area = 2 /\ calls[q].id = PyStr("Q1")
    /\ \E q \in 1 .. Len(calls) :
          calls[q].op = "search" /\ calls[q].area = 1 /\ PyStr("Q1") \in {calls[q].ids[t] : t \in 1 .. Len(calls[q].ids)}

-----------------------------------------------------------------------------
(* Properties of determine_rarity, under SpecRarity *)

\* x >= k for a number x and an int k
AtLeast(x, k) == IF x.d = 0 THEN x.n = 1 ELSE x.n >= k * x.d

Within(x, lo, hi) == AtLeast(x, lo) /\ ~AtLeast(x, hi) /\ ~(x.d = 0 /\ x.n = 0)

\* C6: for a numeric density d the tier is 1 iff 0 <= d < 25, 2 iff
\* 25 <= d < 100, 3 iff 100 <= d < 500 and 4 iff d >= 500.
C6_TierIffRange ==
    (fpc = "return" /\ arg.t \in {"int", "float"}) =>
        /\ ret = PyInt(1) <=> Within(arg, 0, 25)
        /\ ret = PyInt(2) <=> Within(arg, 25, 100)
        /\ ret = PyInt(3) <=> Within(arg, 100, 500)
        /\ ret = PyInt(4) <=> AtLeast(arg, 500)

\* C7: determine_rarity returns None for an argument that is not a number,
\* the sentinel of a record without area included, and one of the tiers
\* 1, 2, 3, 4 for a number.
C7_NoneIffNotNumeric ==
    fpc = "return" =>
        /\ arg.t \notin {"int", "float"} => ret = PyNone
        /\ arg.t \in {"int", "float"} => ret \in {PyInt(1), PyInt(2), PyInt(3), PyInt(4)}

C7_Witness ==
    /\ fpc = "return"
    /\ arg = PyStr("Cannot calculate (no area data)")
    /\ ret = PyNone

-----------------------------------------------------------------------------
(* Properties of get_osm_administrative_areas, under SpecLocate *)

AtLevel(seq, level) == SelectSeq(seq, LAMBDA a : a.admin_level = level)

\* C8: the areas returned are in non-increasing order of admin_level, and the
\* areas of one admin_level are in the order of the elements they come from.
C8_SortedDescendingStable ==
    (fpc = "return" /\ ret.exc = "") =>
        /\ \A p, q \in 1 .. Len(ret.val) :
              p < q => ret.val[p].admin_level >= ret.val[q].admin_level
        /\ arg.status = "ok" /\ arg.has_elements =>
              \A p \in 1 .. Len(ret.val) :
                 AtLevel(ret.val, ret.val[p].admin_level)
                    = AtLevel(CollectAreas(arg.elements).val, ret.val[p].admin_level)

C8_Witness ==
    /\ fpc = "return"
    /\ ret.exc = ""
    /\ Len(arg.elements) = 3
    /\ arg.elements[1].name = "C" /\ arg.elements[2].name = "A"
    /\ arg.elements[3].name = "B" /\ arg.elements[2].has_wikidata
    /\ Len(ret.val) = 3
    /\ ret.val[1].name = PyStr("A") /\ ret.val[2].name = PyStr("B")
    /\ ret.val[1].admin_level = ret.val[2].admin_level
    /\ ret.val[3].name = PyStr("C")

\* C9: every area returned has a name and an identifier that are not None.
C9_AreasHaveNameAndId ==
    (fpc = "return" /\ ret.exc = "") =>
        \A p \in 1 .. Len(ret.val) :
            ret.val[p].name # PyNone /\ ret.val[p].wikidata_id # PyNone

-----------------------------------------------------------------------------
(* Properties of get_population_and_area_wikidata, under SpecFetch *)

PopulationParses(response) ==
    /\ response.status = "ok"
    /\ response.has_bindings
    /\ response.bindings # <<>>
    /\ response.bindings[1].population.k = "value"
    /\ int_of_str(response.bindings[1].population.chars).ok

IsPositive(x) == IF x.d = 0 THEN x.n = 1 ELSE x.n > 0

\* density * area = population, for a finite area n/d and a finite density
IsQuotient(density, population, area) ==
    IF area.d = 0 THEN density.d # 0 /\ density.n = 0
    ELSE density.d # 0 /\ density.n * area.n = population * area.d * density.d

\* C10: for a record whose population parses, the result has the numeric area
\* and density = population / area if the area is present and parses as a
\* positive number, and the "unknown" area and the density sentinel otherwise.
C10_DensityIffPositiveArea ==
    (fpc = "return" /\ ret.exc = "" /\ PopulationParses(arg)) =>
        LET cell       == arg.bindings[1].area
            parsed     == float_of_str(cell.chars)
            population == int_of_str(arg.bindings[1].population.chars).v
        IN  IF cell.k = "value" /\ parsed.ok /\ IsPositive(parsed.v)
            THEN /\ ret.val.area_km2 = parsed.v
                 /\ ret.val.population_density.t = "float"
                 /\ IsQuotient(ret.val.population_density, population, parsed.v)
            ELSE /\ ret.val.area_km2 = UnknownArea
                 /\ ret.val.population_density = NoDensity

\* the area of the first binding is missing or is not the text of a number
AreaMissingOrNotNumeric(response) ==
    \/ response.bindings[1].area.k = "absent"
    \/ /\ response.bindings[1].area.k = "value"
       /\ ~float_of_str(response.bindings[1].area.chars).ok

\* C11: a call that returns gives a record without "error" if and only if the
\* first binding has a population whose text parses as an integer; with such
\* a population and an area that is missing or not numeric the record has the
\* population, the "Unknown" area and the density sentinel.
C11_ValidIffPopulationParses ==
    (fpc = "return" /\ ret.exc = "") =>
        /\ "error" \notin ret.val.keys <=> PopulationParses(arg)
        /\ (PopulationParses(arg) /\ AreaMissingOrNotNumeric(arg)) =>
              /\ ret.val.keys = {"population", "area_km2", "population_density"}
              /\ ret.val.population =
                    PyInt(int_of_str(arg.bindings[1].population.chars).v)
              /\ ret.val.area_km2 = PyStr("Unknown")
              /\ ret.val.population_density = PyStr("Cannot calculate (no area data)")

C11_Witness ==
    /\ fpc = "return"
    /\ arg.status = "ok" /\ arg.has_bindings /\ arg.bindings # <<>>
    /\ arg.bindings[1].population.chars = <<"1", "0", "0", "0", "0", "0", "0">>
    /\ arg.bindings[1].area.k = "absent"
    /\ ret.exc = ""
    /\ ret.val.population = PyInt(1000000)
    /\ ret.val.area_km2 = UnknownArea
    /\ ret.val.population_density = NoDensity
    /\ determine_rarity(ret.val.population_density) = PyNone

-----------------------------------------------------------------------------
(* upload of src/app.py:380-469.  One action from the request to the mint  *)
(* subprocess, one for what follows each subprocess, one for each request  *)
(* of get_population_density, one for lines 456-466.  form.image is        *)
(* "absent" ('image' not in request.files), "nofilename" or the file name; *)
(* latitude and longitude are cells [k, chars], k "absent" for a field the *)
(* request does not have.  procs lists the subprocesses run for the        *)
(* request: [cmd, outcome], outcome "address" or "no_address" (mint exits  *)
(* with 0, with or without 'NFT created with address:' in its output),     *)
(* "ok", "CalledProcessError" (exit status not 0) or "OSError" (node       *)
(* cannot be started).                                                     *)

Form(username, name, description, latitude, longitude, image) ==
    [username |-> username, name |-> name, description |-> description,
     latitude |-> latitude, longitude |-> longitude, image |-> image]

Coordinates(S) == {Cell("value", chars) : chars \in S} \cup {Cell("absent", <<>>)}

UploadForms ==
    {Form(username, name, PyStr("d"), latitude, longitude, image) :
        username \in FormValues({"alice", "bob"}),
        name \in FormValues({"n"}),
        latitude \in Coordinates({<<"2", "7", ".", "7">>, <<"x">>}),
        longitude \in Coordinates({<<"8", "7", ".", "9">>}),
        image \in {"absent", "nofilename", "a.png"}}

Proc(cmd, outcome) == [cmd |-> cmd, outcome |-> outcome]

UploadReply(username, status, success, message) ==
    Reply("app", "upload", username, PyNone, status, success, message)

\* the outer 'except Exception', src/app.py:467-469
InternalError(username) ==
    UploadReply(username, 500, FALSE, "An internal error occurred.")

\* float(lat), src/app.py:442-443
ParseCoordinate(cell) ==
    IF cell.k = "absent" THEN Raise("TypeError")
    ELSE IF float_of_str(cell.chars).ok THEN Return(float_of_str(cell.chars).v)
    ELSE Raise("ValueError")

\* request.form.get of a coordinate, as it is appended at lines 461-462
FormText(cell) == IF cell.k = "absent" THEN PyNone ELSE [t |-> "str", chars |-> cell.chars]

\* None taken as tier 1
upload_rarity_default(flow_pc, data) ==
    IF flow_pc = "done" /\ "error" \notin data.keys
          /\ "population_density" \in data.keys /\ IsNumber(data.population_density)
    THEN determine_rarity(data.population_density)
    ELSE PyInt(1)

\* src/app.py:444-454: rarity after get_population_density returned data
\* (flow_pc "done") or raised (flow_pc "raised")
upload_rarity(flow_pc, data) ==
    IF flow_pc = "raised" THEN PyNone
    ELSE IF "error" \notin data.keys
            /\ "population_density" \in data.keys /\ IsNumber(data.population_density)
    THEN determine_rarity(data.population_density)
    ELSE PyNone

\* src/app.py:458-463
Appended(user, f, rarity) ==
    [user EXCEPT !.nft_names    = Append(@, f.name),
                 !.descriptions = Append(@, f.description),
                 !.image_paths  = Append(@, PyStr("uploads/" \o f.image)),
                 !.latitude     = Append(@, FormText(f.latitude)),
                 !.longitude    = Append(@, FormText(f.longitude)),
                 !.rarity       = Append(@, rarity)]

\* src/app.py:456-469
Record(rarity) ==
    /\ upc' = "idle"
    /\ IF users[form.username.s].has_lists
       THEN /\ users' = [users EXCEPT ![form.username.s] = Appended(@, form, rarity)]
            /\ users_json' = users'
            /\ reply' = UploadReply(form.username, 200, TRUE,
                                    "NFT minted and sent successfully!")
       ELSE \* KeyError at line 458
            /\ reply' = InternalError(form.username)
            /\ UNCHANGED <<users, users_json>>

\* a call of get_population_density starts with new locals
FlowReset ==
    /\ pc' = "idle"
    /\ areas' = <<>>
    /\ area_i' = 0
    /\ alternatives' = <<>>
    /\ alt_i' = 0
    /\ result' = NoResult
    /\ calls' = <<>>

\* src/app.py:382-413, to the start of the mint subprocess
upload_begin(f) ==
    /\ upc = "idle"
    /\ \A u \in Usernames : users[u] # PyNone => Len(users[u].nft_names) < MaxUploads
    /\ FlowReset
    /\ procs' = <<>>
    /\ form' = f
    /\ IF f.image = "absent"
       THEN /\ reply' = UploadReply(f.username, 400, FALSE, "No image file provided")
            /\ upc' = "idle"
       ELSE IF f.image = "nofilename"
       THEN /\ reply' = UploadReply(f.username, 400, FALSE, "No selected image file")
            /\ upc' = "idle"
       ELSE IF ~Has(users, f.username)
       THEN \* KeyError at line 406
            /\ reply' = InternalError(f.username)
            /\ upc' = "idle"
       ELSE IF \/ ~Truthy(f.username) \/ ~Truthy(f.name) \/ ~Truthy(f.description)
               \/ ~Truthy(users[f.username.s].solana_public_key)
       THEN /\ reply' = UploadReply(f.username, 400, FALSE, "error minting NFT.")
            /\ upc' = "idle"
       ELSE /\ reply' = NoReply
            /\ upc' = "mint"
    /\ UNCHANGED <<users, pk_users, users_json, fnVars, pdVars>>

MintFailed(outcome) == outcome = "CalledProcessError"

SendFailed_never(outcome) == FALSE

SendFailed(outcome) == outcome = "CalledProcessError"

\* src/app.py:414-430, from the end of the mint subprocess to the start of
\* the send subprocess; a mint_address None in send_command is a TypeError
mint_returns(outcome) ==
    /\ upc = "mint"
    /\ procs' = Append(procs, Proc("mint", outcome))
    /\ IF MintFailed(outcome)
       THEN /\ reply' = UploadReply(form.username, 400, FALSE, "error minting NFT.")
            /\ upc' = "idle"
       ELSE IF outcome \in {"OSError", "no_address"}
       THEN /\ reply' = InternalError(form.username)
            /\ upc' = "idle"
       ELSE /\ upc' = "send"
            /\ UNCHANGED reply
    /\ UNCHANGED <<users, pk_users, users_json, form, flowVars, fnVars, pdVars>>

\* src/app.py:431-444, from the end of the send subprocess to the call of
\* get_population_density, and 452-466 when a coordinate does not parse
send_returns(outcome) ==
    /\ upc = "send"
    /\ procs' = Append(procs, Proc("send", outcome))
    /\ IF SendFailed(outcome)
       THEN /\ reply' = UploadReply(form.username, 400, FALSE, "error sending NFT.")
            /\ upc' = "idle"
            /\ UNCHANGED <<users, users_json>>
       ELSE IF outcome = "OSError"
       THEN /\ reply' = InternalError(form.username)
            /\ upc' = "idle"
            /\ UNCHANGED <<users, users_json>>
       ELSE IF \/ ParseCoordinate(form.latitude).exc # ""
               \/ ParseCoordinate(form.longitude).exc # ""
       THEN Record(PyNone)
       ELSE /\ upc' = "resolve"
            /\ UNCHANGED <<users, users_json, reply>>
    /\ UNCHANGED <<pk_users, form, flowVars, fnVars, pdVars>>

UploadElements ==
    {Element(TRUE, TRUE, "A", TRUE, "Q1", Level("str", <<"8">>)),
     Element(TRUE, TRUE, "F", TRUE, "Q7", Level("null", <<>>))}

UploadOsmResponses ==
    {OsmResponse("error", FALSE, <<>>)}
      \cup {OsmResponse("ok", TRUE, <<e>>) : e \in UploadElements}

UploadWikidataResponses ==
    {WikidataResponse("ok", TRUE, <<>>),
     WikidataResponse("ok", TRUE,
        <<Binding(Cell("value", <<"1", "0", "0", "0">>), Cell("absent", <<>>))>>),
     WikidataResponse("ok", TRUE,
        <<Binding(Cell("value", <<"1", "0", "0", "0">>), Cell("value", <<"4">>))>>),
     WikidataResponse("ok", TRUE,
        <<Binding(Cell("value", <<"1", "0", "0", "0">>), Cell("novalue", <<>>))>>)}

UploadSearchResponses ==
    {SearchResponse("error", FALSE, <<>>),
     SearchResponse("ok", TRUE, <<Entry(TRUE, "Q9")>>),
     SearchResponse("ok", TRUE, <<Entry(FALSE, "")>>)}

\* get_population_density called at src/app.py:444
resolve_locate(response) ==
    upc = "resolve" /\ LocateAreas(response) /\ UNCHANGED <<pdVars, webVars>>

resolve_fetch(response) ==
    upc = "resolve" /\ FetchPrimary(response) /\ UNCHANGED <<pdVars, webVars>>

resolve_search(response) ==
    upc = "resolve" /\ SearchAlternatives(response) /\ UNCHANGED <<pdVars, webVars>>

resolve_fetch_alternative(response) ==
    upc = "resolve" /\ FetchAlternative(response) /\ UNCHANGED <<pdVars, webVars>>

\* src/app.py:444-466, from the return of get_population_density
upload_record ==
    /\ upc = "resolve"
    /\ pc \in {"done", "raised"}
    /\ Record(upload_rarity(pc, result))
    /\ UNCHANGED <<pk_users, form, procs, flowVars, fnVars, pdVars>>

\* alice has signed up
InitUpload ==
    /\ FlowIdle
    /\ PdIdle
    /\ users = [NoUsers EXCEPT !["alice"] = NewUser(PyStr("pw"), PublicKeyOf(PyStr("alice")))]
    /\ pk_users = NoUsers
    /\ users_json = users
    /\ reply = NoReply
    /\ upc = "idle"
    /\ form = NoForm
    /\ procs = <<>>
    /\ arg = PyNone
    /\ ret = PyNone
    /\ fpc = "none"

NextUpload ==
    \/ \E f \in UploadForms : upload_begin(f)
    \/ \E outcome \in {"address", "no_address", "CalledProcessError", "OSError"} :
          mint_returns(outcome)
    \/ \E outcome \in {"ok", "CalledProcessError", "OSError"} : send_returns(outcome)
    \/ \E response \in UploadOsmResponses : resolve_locate(response)
    \/ \E response \in UploadWikidataResponses : resolve_fetch(response)
    \/ \E response \in UploadSearchResponses : resolve_search(response)
    \/ \E response \in UploadWikidataResponses : resolve_fetch_alternative(response)
    \/ upload_record

SpecUpload == InitUpload /\ [][NextUpload]_vars

-----------------------------------------------------------------------------
(* signup and login of the two programs, from no user *)

InitAccounts ==
    /\ FlowIdle
    /\ PdIdle
    /\ WebIdle
    /\ arg = PyNone
    /\ ret = PyNone
    /\ fpc = "none"

NextAccounts ==
    \/ \E username \in FormValues(Usernames), password \in FormValues(Passwords) :
          signup(username, password)
    \/ \E username \in FormValues(Usernames), password \in FormValues(Passwords) :
          login(username, password)
    \/ \E username \in FormValues(Usernames), password \in FormValues(Passwords) :
          pk_signup(username, password)
    \/ \E username \in FormValues(Usernames), password \in FormValues(Passwords) :
          pk_login(username, password)

SpecAccounts == InitAccounts /\ [][NextAccounts]_vars

-----------------------------------------------------------------------------
(* get_population_density on a boundary response whose elements have an    *)
(* admin_level that is missing or is not the text of an integer.  arg is   *)
(* the boundary response, kept for the whole call.                         *)

SentinelElements ==
    {Element(TRUE, TRUE, "B", TRUE, "Q2", Level("str", <<"4">>)),
     Element(TRUE, TRUE, "D", TRUE, "Q5", Level("absent", <<>>)),
     Element(TRUE, TRUE, "E", TRUE, "Q6", Level("str", <<"x">>))}

SentinelOsmResponses ==
    {OsmResponse("ok", TRUE, es) : es \in SeqsUpTo(SentinelElements, MaxAreas)}

SentinelWikidataResponses ==
    {WikidataResponse("ok", TRUE, <<>>),
     WikidataResponse("ok", TRUE,
        <<Binding(Cell("value", <<"1", "0", "0", "0">>), Cell("value", <<"4">>))>>)}

SentinelSearchResponses ==
    {SearchResponse("error", FALSE, <<>>)}
      \cup {SearchResponse("ok", TRUE, es) :
              es \in SeqsUpTo({Entry(TRUE, "Q9")}, MaxCandidates)}

InitSentinel ==
    /\ FlowIdle
    /\ PdIdle
    /\ WebIdle
    /\ arg \in SentinelOsmResponses
    /\ ret = PyNone
    /\ fpc = "none"

NextSentinel ==
    \/ BothLocate(arg)
    \/ \E response \in SentinelWikidataResponses : BothFetchPrimary(response)
    \/ \E response \in SentinelSearchResponses : BothSearch(response)
    \/ \E response \in SentinelWikidataResponses : BothFetchAlternative(response)

SpecSentinel == InitSentinel /\ [][NextSentinel]_vars

-----------------------------------------------------------------------------
\* C12: get_population_density never raises, and what it returns is a
\* populated result or one of the two top-level failures: no other "error"
\* text reaches the caller.
C12_NeverRaisesTwoFailures ==
    /\ pc # "raised"
    /\ pc = "done" =>
          \/ result.keys = {"error"} /\ result.error \in {NoAreasMessage, NoDataMessage}
          \/ "error" \notin result.keys /\ ResultFields \subseteq result.keys

-----------------------------------------------------------------------------
\* an element that carries both a name and an identifier in its tags
Qualifies(element) ==
    element.has_tags /\ element.has_name /\ element.has_wikidata

NoQualifyingElements(response) ==
    /\ response.status = "ok"
    /\ \/ ~response.has_elements
       \/ \A p \in 1 .. Len(response.elements) : ~Qualifies(response.elements[p])

\* C13: get_osm_administrative_areas returns the empty list, without raising,
\* when the request fails and when the response has no "elements", an empty
\* "elements" or no element that carries the required tags (name, wikidata).
C13_EmptyWithoutRaising ==
    (fpc = "return" /\ (arg.status = "error" \/ NoQualifyingElements(arg))) =>
        ret = Return(<<>>)

-----------------------------------------------------------------------------
(* The functions of src/app.py and of src/population_density.py on the     *)
(* same responses, under Spec                                              *)

SameCallsAndResult ==
    /\ pd.pc = pc
    /\ pd.calls = calls
    /\ pd.areas = areas
    /\ pd.alternatives = alternatives
    /\ pd.result = result

\* C14 as stated: on the same responses the two files make the same calls
\* and each of the four functions returns equal values.
C14_EqualValues ==
    /\ SameCallsAndResult
    /\ helper.pd = helper.app

\* C14, amended: the same calls, equal values of get_population_density,
\* get_osm_administrative_areas and search_alternative_wikidata_ids, and
\* equal values of get_population_and_area_wikidata but for the text of the
\* error for a population that does not parse.
C14_EqualButErrorText ==
    /\ SameCallsAndResult
    /\ \/ helper.pd = helper.app
       \/ /\ helper.app = Return(PopulationError("Population data is not valid."))
          /\ helper.pd =
                Return(PopulationError("Population data is not in a valid format."))

C14_Witness ==
    /\ pc = "done" /\ pd.pc = "done"
    /\ Len(calls) >= 3 /\ pd.calls = calls
    /\ result = ErrorResult(NoDataMessage) /\ pd.result = result
    /\ calls[Len(calls)].op = "fetch_alt"
    /\ helper.app # helper.pd

-----------------------------------------------------------------------------
(* Order and number of the requests of get_population_density, under Spec *)

CallsOf(op, a) == {k \in 1 .. Len(calls) : calls[k].op = op /\ calls[k].area = a}

\* the number of candidates the search for area a returned, 0 without search
Candidates(a) ==
    IF CallsOf("search", a) = {} THEN 0
    ELSE Len(calls[CHOOSE k \in CallsOf("search", a) : TRUE].ids)

Fetches == {k \in 1 .. Len(calls) : calls[k].op \in {"fetch", "fetch_alt"}}

RECURSIVE FetchBound(_)
FetchBound(n) == IF n = 0 THEN 0 ELSE 1 + Candidates(n) + FetchBound(n - 1)

\* request k follows request k - 1 as the loops of lines 183-212 allow
FollowsInOrder(k) ==
    LET c == calls[k]
        b == calls[k - 1]
    IN  CASE c.op = "fetch" ->
               IF k = 2 THEN b.op = "osm" /\ c.area = 1
               ELSE /\ c.area = b.area + 1
                    /\ b.op \in {"search", "fetch_alt"}
                    /\ b.outcome \in {"returned", "invalid"}
          [] c.op = "search" ->
               b.op = "fetch" /\ b.area = c.area /\ b.outcome = "invalid"
          [] c.op = "fetch_alt" ->
               /\ b.area = c.area
               /\ \/ b.op = "search" /\ b.outcome = "returned"
                  \/ b.op = "fetch_alt" /\ b.outcome = "invalid"
               /\ \E s \in 2 .. k - 1 :
                      /\ calls[s].op = "search" /\ calls[s].area = c.area
                      /\ \E p \in 1 .. Len(calls[s].ids) : calls[s].ids[p] = c.id
          [] OTHER -> FALSE

\* C15: one boundary query, first; then area by area one primary fetch, one
\* search only after a primary fetch that failed, and at most one fetch for
\* each candidate the search returned; the fetches number at most the sum
\* of 1 + K over the areas; nothing is requested after a valid fetch.
C15_CallOrderAndBound ==
    /\ \A k \in 1 .. Len(calls) : calls[k].op = "osm" <=> k = 1
    /\ \A k \in 2 .. Len(calls) : FollowsInOrder(k)
    /\ \A k \in 1 .. Len(calls) : calls[k].outcome = "valid" => k = Len(calls)
    /\ \A a \in 1 .. Len(areas) :
          /\ Cardinality(CallsOf("fetch", a)) <= 1
          /\ Cardinality(CallsOf("search", a)) <= 1
          /\ Cardinality(CallsOf("fetch_alt", a)) <= Candidates(a)
    /\ \A k \in Fetches : calls[k].area \in 1 .. Len(areas)
    /\ Cardinality(Fetches) <= FetchBound(Len(areas))
    /\ pc \in {"done", "raised"} <=>
          \/ calls # <<>> /\ calls[Len(calls)].outcome \in {"valid", "raised"}
          \/ result.keys = {"error"}

C15_Witness ==
    /\ pc = "done"
    /\ Len(areas) = 2
    /\ Candidates(1) = 2 /\ Candidates(2) = 1
    /\ Cardinality(CallsOf("fetch_alt", 1)) = 2
    /\ Cardinality(Fetches) = FetchBound(2)
    /\ result = ErrorResult(NoDataMessage)

-----------------------------------------------------------------------------
(* The admin_level of an element without one, under SpecSentinel *)

\* a retained element whose admin_level is missing or is not an integer's text
Defaulted(element) ==
    /\ Retained(element)
    /\ \/ element.admin_level.k = "absent"
       \/ /\ element.admin_level.k = "str"
          /\ ~int_of_str(element.admin_level.chars).ok

\* the requests made for area p
Tried(p) == {k \in 2 .. Len(calls) : calls[k].area = p}

\* C16: an element whose admin_level is missing or does not parse gets 99
\* and the query does not fail: every retained element is returned; an area
\* with 99 is placed before, and tried before, every area with a level
\* below 99.
C16_DefaultLevelSortsFirst ==
    pc # "idle" =>
        /\ calls[1].outcome = "returned"
        /\ Len(areas) =
              Cardinality({p \in 1 .. Len(arg.elements) : Retained(arg.elements[p])})
        /\ \A p \in 1 .. Len(arg.elements) :
              Defaulted(arg.elements[p]) =>
                  \E q \in 1 .. Len(areas) :
                      areas[q] = [name        |-> PyStr(arg.elements[p].name),
                                  wikidata_id |-> PyStr(arg.elements[p].wikidata),
                                  admin_level |-> 99]
        /\ \A p, q \in 1 .. Len(areas) :
              (areas[p].admin_level = 99 /\ areas[q].admin_level < 99) =>
                  /\ p < q
                  /\ \A k \in Tried(q) : Tried(p) # {} /\ \A j \in Tried(p) : j < k

C16_Witness ==
    /\ pc = "done"
    /\ Len(arg.elements) = 2
    /\ arg.elements[1].name = "B" /\ arg.elements[2].name = "D"
    /\ areas[1].name = PyStr("D") /\ areas[1].admin_level = 99
    /\ areas[2].name = PyStr("B") /\ areas[2].admin_level = 4
    /\ Tried(1) # {} /\ Tried(2) # {}
    /\ result.location = PyStr("B")

-----------------------------------------------------------------------------
(* login after signup, under SpecAccounts *)

\* the dict of the program that sent the last reply
UsersOf(program) == IF program = "app" THEN users ELSE pk_users

\* signup(username, password) has succeeded in that program
SignedUp(program, username, password) ==
    /\ Has(UsersOf(program), username)
    /\ UsersOf(program)[username.s].password = password

\* C18: in both programs a login with the username and password of a signup
\* that succeeded returns 200 with success true, and a login with another
\* password or with an unknown username returns 401.
C18_LoginAfterSignup ==
    (reply.route = "login" /\ Truthy(reply.username) /\ Truthy(reply.password)) =>
        IF SignedUp(reply.program, reply.username, reply.password)
        THEN reply.status = 200 /\ reply.success
        ELSE reply.status = 401 /\ ~reply.success

-----------------------------------------------------------------------------
(* upload of src/app.py, under SpecUpload *)

MintedAndSent == <<Proc("mint", "address"), Proc("send", "ok")>>

LastOfList(seq) == seq[Len(seq)]

\* the dict new differs from old by one entry more under the key of the request
EntryAppended(old, new) ==
    LET u == form.username.s
    IN  /\ \A v \in Usernames \ {u} : new[v] = old[v]
        /\ new[u].password = old[u].password
        /\ new[u].solana_public_key = old[u].solana_public_key
        /\ new[u].nft_names = Append(old[u].nft_names, form.name)
        /\ new[u].descriptions = Append(old[u].descriptions, form.description)
        /\ new[u].image_paths = Append(old[u].image_paths, PyStr("uploads/a.png"))
        /\ Len(new[u].latitude) = Len(old[u].latitude) + 1
        /\ Len(new[u].longitude) = Len(old[u].longitude) + 1
        /\ Len(new[u].rarity) = Len(old[u].rarity) + 1

\* C17: the users data changes, in memory or in users.json, only by one
\* entry appended and saved after the mint and then the send subprocess
\* succeeded; a mint or send subprocess that fails gives a 400 reply and
\* leaves the users data as it was.
C17_RecordedOnlyAfterMintAndSend ==
    [][ /\ (users' # users \/ users_json' # users_json) =>
              /\ procs' = MintedAndSent
              /\ EntryAppended(users, users')
              /\ users_json' = users'
              /\ reply'.status = 200 /\ reply'.success
        /\ (Len(procs') > Len(procs)
              /\ LastOfList(procs').outcome = "CalledProcessError") =>
              /\ reply'.status = 400 /\ ~reply'.success
              /\ upc' = "idle"
              /\ users' = users
              /\ users_json' = users_json
      ]_vars

C17_Witness ==
    /\ upc = "idle"
    /\ reply.status = 400
    /\ procs = <<Proc("mint", "address"), Proc("send", "CalledProcessError")>>
    /\ users["alice"].nft_names = <<PyStr("n")>>
    /\ users["alice"].rarity = <<PyInt(3)>>
    /\ users_json = users

\* float() fails on the latitude or the longitude of the request
CoordinatesUnparsable ==
    \/ form.latitude.k = "absent" \/ ~float_of_str(form.latitude.chars).ok
    \/ form.longitude.k = "absent" \/ ~float_of_str(form.longitude.chars).ok

\* C19: the rarity recorded by an upload is determine_rarity(density) when
\* get_population_density returned a record without "error" whose density
\* is a number, and None when a coordinate does not parse, when the call
\* raised, when it returned an error and when the density is the sentinel;
\* once mint and send have succeeded the entry is recorded in each case.
C19_RarityFromDensityOrNone ==
    /\ (upc = "idle" /\ reply.route = "upload" /\ reply.status = 200) =>
          LET user   == users[reply.username.s]
              rarity == LastOfList(user.rarity)
          IN  /\ Len(user.rarity) = Len(user.nft_names)
              /\ LastOfList(user.nft_names) = form.name
              /\ CASE CoordinatesUnparsable -> pc = "idle" /\ rarity = PyNone
                   [] pc = "raised" -> rarity = PyNone
                   [] pc = "done" /\ "error" \in result.keys -> rarity = PyNone
                   [] pc = "done" /\ ~IsNumber(result.population_density) ->
                         rarity = PyNone
                   [] OTHER ->
                         /\ pc = "done"
                         /\ rarity = determine_rarity(result.population_density)
                         /\ rarity \in {PyInt(1), PyInt(2), PyInt(3), PyInt(4)}
    /\ (upc = "idle" /\ procs = MintedAndSent) =>
          /\ reply.status = 200
          /\ users[form.username.s].nft_names # <<>>
          /\ users_json = users

C19_Witness ==
    /\ upc = "idle"
    /\ reply.status = 200
    /\ users["alice"].latitude =
          <<FormText(Cell("value", <<"2", "7", ".", "7">>)),
            FormText(Cell("value", <<"2", "7", ".", "7">>))>>
    /\ users["alice"].rarity = <<PyNone, PyInt(3)>>
    /\ pc = "done"
    /\ result.population_density = PyFloat(250, 1)

====
